---- MODULE Spec2Model ----
(***************************************************************************)
(* A model of app.py of Advance-Expense-Manager: the sqlite expense and    *)
(* budget tables, the st.cache_data cache in front of load_expenses, the   *)
(* page handlers that write to the tables, and the aggregation done by     *)
(* dashboard().                                                            *)
(*                                                                         *)
(* Encoding.  Amounts are whole currency units (Int).  A dt string         *)
(* "YYYY-MM-DD[ HH]" is the triple <<month, day, hour>>: substr(dt,1,7) is *)
(* its first component, the calendar date its first two.  Months are       *)
(* numbered 1.. in calendar order.  Python's None / falsy argument is      *)
(* NoMonth (0) for a month and NoCategory ("") for a category.  An         *)
(* optional value is a sequence of length 0 or 1.  The description and     *)
(* payment columns are carried by no computation and are left out.         *)
(***************************************************************************)
EXTENDS Integers, Sequences, FiniteSets, TLC

\* ---------------------------------------------------------------- bounds
MaxExpenses == 3
MaxRows == 3
MaxCsvRows == 2
MaxBudgets == 2

\* ------------------------------------------------------------ value sets
Users == {1, 2}
Months == {1, 2}
NoMonth == 0
NoCategory == ""
\* two of the default categories, in lexical order
CategoryOrder == <<"Bills", "Food">>
Categories == {CategoryOrder[i] : i \in 1..Len(CategoryOrder)}
Sessions == {"s1", "s2"}
\* amounts a number_input(min_value=0.0) form can submit
FormAmounts == {1, 2}
BudgetAmounts == {0, 1, 2}
\* amounts a table row can hold: a CSV cell may be negative
SpendAmounts == {-1, 0, 1, 2}

None == <<>>
Some(x) == <<x>>

\* expenses, nextId      the expenses table and its AUTOINCREMENT sequence
\* budgets, nextBudgetId  the budgets table and its AUTOINCREMENT sequence
\* cache                  the st.cache_data entries of load_expenses, by arguments
\* dash                   what the last run of dashboard() computed
\* budgetView             what the last run of page_budgets() showed
\* lastUpsert             history: the amount of the latest upsert_budget per key
\* user[s]                st.session_state.user["id"] of session s
\* pc[s]                  where the script run of session s stands
\* args[s], df[s], hit[s] the load_expenses call of s: its month and category,
\*                        its result, and whether the cache answered it
\* rowcount[s]            the rowcount of the cursor of the DELETE of
\*                        delete_expense (which the code does not read)
\* report[s]              the st.success / st.error message the run ended with
VARIABLES expenses, nextId, budgets, nextBudgetId, cache,
          dash, budgetView, lastUpsert,
          user, pc, args, df, hit, rowcount, report

vars == <<expenses, nextId, budgets, nextBudgetId, cache,
          dash, budgetView, lastUpsert,
          user, pc, args, df, hit, rowcount, report>>

storeVars == <<expenses, nextId>>
budgetVars == <<budgets, nextBudgetId, budgetView, lastUpsert>>
sessionVars == <<user, pc, args, df, hit, rowcount, report>>

\* ------------------------------------------------------ generic helpers
Max0(x) == IF x > 0 THEN x ELSE 0

RECURSIVE SumAmount(_)
\* Series.sum() of the amount column
SumAmount(s) == IF s = <<>> THEN 0 ELSE Head(s).amount + SumAmount(Tail(s))

Range(s) == {s[i] : i \in 1..Len(s)}

\* lexical order of category names
CatRank(c) == CHOOSE i \in 1..Len(CategoryOrder) : CategoryOrder[i] = c
CatLess(a, b) == CatRank(a) < CatRank(b)

\* order of dt values (ISO strings compare as their timestamps do)
DtLess(a, b) ==
    \/ a[1] < b[1]
    \/ a[1] = b[1] /\ a[2] < b[2]
    \/ a[1] = b[1] /\ a[2] = b[2] /\ a[3] < b[3]

\* .dt.date : the calendar date of a timestamp
DateOf(dt) == <<dt[1], dt[2]>>
DateLess(a, b) == a[1] < b[1] \/ (a[1] = b[1] /\ a[2] < b[2])

RECURSIVE RowidOrder(_)
\* the rows of a table in rowid order, as a scan without ORDER BY returns them
RowidOrder(S) ==
    IF S = {} THEN <<>>
    ELSE LET r == CHOOSE x \in S : \A y \in S : x.id <= y.id
         IN <<r>> \o RowidOrder(S \ {r})

\* ------------------------------------------------------------ the tables
\* c.execute CREATE TABLE expenses: id INTEGER PRIMARY KEY AUTOINCREMENT
ExpenseRow(id, u, dt, cat, amt) ==
    [id |-> id, user_id |-> u, dt |-> dt, category |-> cat, amount |-> amt]

\* c.execute CREATE TABLE budgets ... UNIQUE(user_id, month, category)
BudgetRow(id, u, m, cat, amt) ==
    [id |-> id, user_id |-> u, month |-> m, category |-> cat, amount |-> amt]

\* SELECT id, dt, category, description, amount, payment : user_id is dropped
Project(r) == [id |-> r.id, dt |-> r.dt, category |-> r.category, amount |-> r.amount]

RECURSIVE MapProject(_)
MapProject(s) == IF s = <<>> THEN <<>> ELSE <<Project(Head(s))>> \o MapProject(Tail(s))

\* the WHERE clause built by load_expenses
NoUserFilterMatches(r, u, m, c) ==
    /\ (m # NoMonth => r.dt[1] = m)
    /\ (c # NoCategory => r.category = c)

Matches(r, u, m, c) ==
    /\ r.user_id = u
    /\ (m # NoMonth => r.dt[1] = m)
    /\ (c # NoCategory => r.category = c)

\* the body of load_expenses: the query it runs on the table
Query(table, u, m, c) ==
    MapProject(RowidOrder({r \in table : Matches(r, u, m, c)}))

\* SELECT category, amount FROM budgets WHERE user_id=? AND month=?
BudgetQuery(table, u, m) ==
    LET rows == RowidOrder({b \in table : b.user_id = u /\ b.month = m})
    IN [i \in 1..Len(rows) |-> [category |-> rows[i].category, amount |-> rows[i].amount]]

get_budgets(u, m) == BudgetQuery(budgets, u, m)

\* INSERT OR IGNORE: a conflicting row keeps its old amount
InsertOrIgnore(table, id, u, m, cat, amt) ==
    IF \E b \in table : b.user_id = u /\ b.month = m /\ b.category = cat
    THEN table
    ELSE table \cup {BudgetRow(id, u, m, cat, amt)}

\* INSERT INTO budgets ... ON CONFLICT(user_id, month, category)
\* DO UPDATE SET amount=excluded.amount : the table after upsert_budget
upsert_budget(table, id, u, m, cat, amt) ==
    IF \E b \in table : b.user_id = u /\ b.month = m /\ b.category = cat
    THEN {IF b.user_id = u /\ b.month = m /\ b.category = cat
          THEN [b EXCEPT !.amount = amt] ELSE b : b \in table}
    ELSE table \cup {BudgetRow(id, u, m, cat, amt)}

\* --------------------------------------------------- st.cache_data(ttl=60)
EmptyCache == [k \in {} |-> <<>>]
CacheKey(u, m, c) == <<u, m, c>>

\* what a call of the cached load_expenses returns when it runs undisturbed
load_expenses(u, m, c) ==
    IF CacheKey(u, m, c) \in DOMAIN cache THEN cache[CacheKey(u, m, c)]
    ELSE Query(expenses, u, m, c)

\* the cache after that call
CacheAfterLoad(u, m, c) ==
    IF CacheKey(u, m, c) \in DOMAIN cache THEN cache
    ELSE cache @@ (CacheKey(u, m, c) :> Query(expenses, u, m, c))

\* ------------------------------------------------------------- dashboard
Perms(n) == {p \in [1..n -> 1..n] : \A i, j \in 1..n : p[i] = p[j] => i = j}

RECURSIVE AscendingCats(_)
AscendingCats(S) ==
    IF S = {} THEN <<>>
    ELSE LET c == CHOOSE x \in S : \A y \in S : x = y \/ CatLess(x, y)
         IN <<c>> \o AscendingCats(S \ {c})

\* df.groupby("category")["amount"].sum().reset_index(): one row per category
\* of df, in ascending category order
GroupByCategoryFirst(d) ==
    LET cats == AscendingCats({d[i].category : i \in 1..Len(d)})
    IN [i \in 1..Len(cats) |->
          [category |-> cats[i],
           amount |-> (SelectSeq(d, LAMBDA r : r.category = cats[i]))[1].amount]]

GroupByCategory(d) ==
    LET cats == AscendingCats({d[i].category : i \in 1..Len(d)})
    IN [i \in 1..Len(cats) |->
          [category |-> cats[i],
           amount |-> SumAmount(SelectSeq(d, LAMBDA r : r.category = cats[i]))]]

\* .sort_values("amount", ascending=False): kind defaults to quicksort, which
\* is not stable, so every descending arrangement is a possible outcome
SortValuesAscending(s) ==
    {[i \in 1..Len(s) |-> s[p[i]]] : p \in
        {q \in Perms(Len(s)) : \A i, j \in 1..Len(s) :
            i < j => s[q[i]].amount <= s[q[j]].amount}}

SortValuesDescending(s) ==
    {[i \in 1..Len(s) |-> s[p[i]]] : p \in
        {q \in Perms(Len(s)) : \A i, j \in 1..Len(s) :
            i < j => s[q[i]].amount >= s[q[j]].amount}}

RECURSIVE MergeInner(_, _)
MergeInner(by_cat, bud) ==
    IF by_cat = <<>> THEN <<>>
    ELSE LET l == Head(by_cat)
             hits == SelectSeq(bud, LAMBDA b : b.category = l.category)
         IN [i \in 1..Len(hits) |->
                  [category |-> l.category, amount_spent |-> l.amount,
                   amount_budget |-> hits[i].amount]]
            \o MergeInner(Tail(by_cat), bud)

RECURSIVE MergeLeft(_, _)
\* by_cat.merge(budgets, how="left", on="category", ...).fillna(0)
MergeLeft(by_cat, bud) ==
    IF by_cat = <<>> THEN <<>>
    ELSE LET l == Head(by_cat)
             hits == SelectSeq(bud, LAMBDA b : b.category = l.category)
         IN (IF hits = <<>>
             THEN <<[category |-> l.category, amount_spent |-> l.amount,
                     amount_budget |-> 0]>>
             ELSE [i \in 1..Len(hits) |->
                      [category |-> l.category, amount_spent |-> l.amount,
                       amount_budget |-> hits[i].amount]])
            \o MergeLeft(Tail(by_cat), bud)

RECURSIVE OverSum(_)
\* (merged["amount_spent"] - merged["amount_budget"]).clip(lower=0).sum()
OverSum(merged) ==
    IF merged = <<>> THEN 0
    ELSE Max0(Head(merged).amount_spent - Head(merged).amount_budget)
         + OverSum(Tail(merged))

RECURSIVE AscendingDates(_)
AscendingDates(S) ==
    IF S = {} THEN <<>>
    ELSE LET x == CHOOSE a \in S : \A b \in S : a = b \/ DateLess(a, b)
         IN <<x>> \o AscendingDates(S \ {x})

\* df.groupby(df["dt"].dt.date)["amount"].sum().reset_index()
GroupByTimestamp(d) ==
    LET keys == {d[i].dt : i \in 1..Len(d)}
        RECURSIVE Asc(_)
        Asc(S) == IF S = {} THEN <<>>
                  ELSE LET x == CHOOSE a \in S : \A b \in S : a = b \/ DtLess(a, b)
                       IN <<x>> \o Asc(S \ {x})
        ks == Asc(keys)
    IN [i \in 1..Len(ks) |->
          [date |-> DateOf(ks[i]),
           amount |-> SumAmount(SelectSeq(d, LAMBDA r : r.dt = ks[i]))]]

GroupByDate(d) ==
    LET dates == AscendingDates({DateOf(d[i].dt) : i \in 1..Len(d)})
    IN [i \in 1..Len(dates) |->
          [date |-> dates[i],
           amount |-> SumAmount(SelectSeq(d, LAMBDA r : DateOf(r.dt) = dates[i]))]]

NoDash ==
    [view |-> "none", user |-> 0, month |-> NoMonth, df |-> <<>>, total |-> None,
     by_cat |-> <<>>, top |-> None, over |-> None, daily |-> <<>>]

\* dashboard(user) with the sidebar month set to m
Dashboard(u, m) ==
    LET d == load_expenses(u, m, NoCategory)
        bud == get_budgets(u, m)
    IN /\ cache' = CacheAfterLoad(u, m, NoCategory)
       /\ IF d = <<>>
          THEN dash' = [NoDash EXCEPT !.view = "info", !.user = u, !.month = m]
          ELSE \E by_cat \in SortValuesDescending(GroupByCategory(d)) :
                 dash' = [view |-> "metrics", user |-> u, month |-> m, df |-> d,
                          total |-> Some(SumAmount(d)),
                          by_cat |-> by_cat,
                          top |-> IF by_cat # <<>> THEN Some(by_cat[1]) ELSE None,
                          over |-> IF bud # <<>>
                                   THEN Some(OverSum(MergeLeft(by_cat, bud)))
                                   ELSE None,
                          daily |-> GroupByDate(d)]
       /\ UNCHANGED <<storeVars, budgetVars, sessionVars>>

\* ------------------------------------------ states the tables can be in
BudgetKeys == Users \X Months \X Categories

SeqsUpTo(S, n) == UNION {[1..k -> S] : k \in 0..n}

\* the table after the rows of s were inserted, in order, for user u
TableOf(s, u) ==
    {ExpenseRow(i, u, s[i].dt, s[i].category, s[i].amount) : i \in 1..Len(s)}

\* rows of one user, month and day in every category; an imported amount
\* may be negative
CategoryRows ==
    {[dt |-> <<1, 1, 0>>, category |-> c, amount |-> a] :
        c \in Categories, a \in SpendAmounts}

\* rows of one user, month and category on two days, with and without a time
DailyRows ==
    {[dt |-> <<1, d, h>>, category |-> "Food", amount |-> a] :
        d \in 1..2, h \in 0..1, a \in FormAmounts}

\* budget tables of user u and month m: at most one row per category
BudgetTables(u, m) ==
    UNION {{{BudgetRow(ord[c], u, m, c, amt[c]) : c \in cs} :
               ord \in {o \in [cs -> 1..Cardinality(cs)] :
                           \A a, b \in cs : o[a] = o[b] => a = b},
               amt \in [cs -> BudgetAmounts]} :
           cs \in SUBSET Categories}

UpsertsOf(table) ==
    [k \in BudgetKeys |->
        LET B == {b \in table : <<b.user_id, b.month, b.category>> = k}
        IN IF B = {} THEN None ELSE Some((CHOOSE b \in B : TRUE).amount)]

NoArgs == <<NoMonth, NoCategory>>
NoView == [user |-> 0, month |-> NoMonth, rows |-> <<>>]

IdleSessions ==
    /\ pc = [s \in Sessions |-> "idle"]
    /\ args = [s \in Sessions |-> NoArgs]
    /\ df = [s \in Sessions |-> <<>>]
    /\ hit = [s \in Sessions |-> FALSE]
    /\ rowcount = [s \in Sessions |-> 0]
    /\ report = [s \in Sessions |-> ""]

InitAgg ==
    /\ \/ \E rows \in SeqsUpTo(CategoryRows, MaxRows), t \in BudgetTables(1, 1) :
             /\ expenses = TableOf(rows, 1)
             /\ nextId = Len(rows) + 1
             /\ budgets = t
       \/ \E rows \in SeqsUpTo(DailyRows, MaxRows) :
             /\ expenses = TableOf(rows, 1)
             /\ nextId = Len(rows) + 1
             /\ budgets = {}
    /\ nextBudgetId = Cardinality(budgets) + 1
    /\ lastUpsert = UpsertsOf(budgets)
    /\ cache = EmptyCache
    /\ dash = NoDash
    /\ budgetView = NoView
    /\ user = [s \in Sessions |-> 1]
    /\ IdleSessions

NextAgg == \E u \in {1}, m \in {1} : Dashboard(u, m)

SpecAgg == InitAgg /\ [][NextAgg]_vars

\* ----------------------------------------------- reference aggregations
RECURSIVE SumOfRows(_)
SumOfRows(S) ==
    IF S = {} THEN 0
    ELSE LET r == CHOOSE x \in S : TRUE IN r.amount + SumOfRows(S \ {r})

DashRows == Range(dash.df)
SpentIn(c) == SumOfRows({r \in DashRows : r.category = c})
SpentOn(d) == SumOfRows({r \in DashRows : DateOf(r.dt) = d})
DashBudgets == {b \in budgets : b.user_id = dash.user /\ b.month = dash.month}
BudgetOf(c) ==
    LET B == {b \in DashBudgets : b.category = c}
    IN IF B = {} THEN 0 ELSE (CHOOSE b \in B : TRUE).amount

RECURSIVE OverOf(_)
OverOf(cs) ==
    IF cs = {} THEN 0
    ELSE LET c == CHOOSE x \in cs : TRUE
         IN Max0(SpentIn(c) - BudgetOf(c)) + OverOf(cs \ {c})

ExpectedOver == OverOf({r.category : r \in DashRows})

DashCats == {r.category : r \in DashRows}
DashDates == {DateOf(r.dt) : r \in DashRows}

\* ------------------------------------------------------------------- C1
\* C1 as stated: whatever the expenses and budgets of the owner and month
\* (none at all included), the dashboard's over-budget total is the sum over
\* the categories with an expense of max(0, spent - budget), a missing
\* budget counting as 0, and is never negative.
C1_AsStated ==
    dash.view # "none" => dash.over = Some(ExpectedOver) /\ ExpectedOver >= 0

\* C1 amended: when the owner and month have at least one expense and at
\* least one budget record, the over-budget total is that sum (never
\* negative, a budget without spend adding nothing); with no expense or with
\* no budget record the dashboard computes no over-budget total.
C1_OverBudget ==
    /\ (dash.view = "metrics" /\ DashBudgets # {}) =>
          /\ dash.over = Some(ExpectedOver)
          /\ dash.over[1] >= 0
    /\ (dash.view = "info" \/ (dash.view = "metrics" /\ DashBudgets = {})) =>
          dash.over = None

\* one category over its budget, one spent in without a budget
C1_Witness ==
    /\ dash.view = "metrics"
    /\ \E c \in DashCats : BudgetOf(c) > 0 /\ SpentIn(c) > BudgetOf(c)
    /\ \E c \in DashCats : (\A b \in DashBudgets : b.category # c) /\ SpentIn(c) > 0
    /\ dash.over = Some(2)

\* ------------------------------------------------------------------- C2
\* C2 as stated: the category totals add up to the total spent, every
\* expense is counted in exactly one of them, and with no expenses the total
\* is 0 and the category totals are empty.
C2_AsStated ==
    dash.view # "none" =>
        /\ dash.total = Some(SumAmount(dash.by_cat))
        /\ \A c \in DashCats :
              \E i \in 1..Len(dash.by_cat) :
                 /\ dash.by_cat[i] = [category |-> c, amount |-> SpentIn(c)]
                 /\ \A j \in 1..Len(dash.by_cat) :
                       dash.by_cat[j].category = c => j = i
        /\ (DashRows = {} => dash.total = Some(0) /\ dash.by_cat = <<>>)

\* C2 amended: when the owner and month have an expense, the category
\* totals add up to the total spent, which is the sum of all the amounts,
\* and every expense is counted in exactly one category total; with no
\* expenses the dashboard returns before computing a total.
C2_CategoryTotals ==
    /\ dash.view = "metrics" =>
          /\ dash.total = Some(SumAmount(dash.by_cat))
          /\ dash.total = Some(SumOfRows(DashRows))
          /\ {dash.by_cat[i].category : i \in 1..Len(dash.by_cat)} = DashCats
          /\ \A c \in DashCats :
                \E i \in 1..Len(dash.by_cat) :
                   /\ dash.by_cat[i] = [category |-> c, amount |-> SpentIn(c)]
                   /\ \A j \in 1..Len(dash.by_cat) :
                         dash.by_cat[j].category = c => j = i
    /\ dash.view = "info" => DashRows = {} /\ dash.total = None

\* two expenses of different amounts in one category, a third in another
C2_Witness ==
    /\ dash.view = "metrics"
    /\ Len(dash.by_cat) = 2
    /\ \E r1, r2 \in DashRows :
          r1.id # r2.id /\ r1.category = r2.category /\ r1.amount = 1 /\ r2.amount = 2

\* ------------------------------------------------------------------- C3
Descending(s) == \A i, j \in 1..Len(s) : i < j => s[i].amount >= s[j].amount

\* C3 as stated: the category totals are in descending order of amount, ties
\* in ascending order of category name, and the top category is the first
\* of them (none without expenses).
C3_AsStated ==
    dash.view # "none" =>
        /\ Descending(dash.by_cat)
        /\ \A i, j \in 1..Len(dash.by_cat) :
              (i < j /\ dash.by_cat[i].amount = dash.by_cat[j].amount) =>
                  CatLess(dash.by_cat[i].category, dash.by_cat[j].category)
        /\ dash.top = IF dash.by_cat = <<>> THEN None ELSE Some(dash.by_cat[1])

\* C3 amended: the category totals are in descending order of amount, the
\* order among equal totals being left open by the sort, and the top
\* category is the first of them, a category of greatest total; without
\* expenses no top category is shown.
C3_Order ==
    /\ dash.view = "metrics" =>
          /\ Descending(dash.by_cat)
          /\ dash.by_cat # <<>>
          /\ dash.top = Some(dash.by_cat[1])
          /\ \A c \in DashCats : dash.top[1].amount >= SpentIn(c)
    /\ dash.view = "info" => dash.top = None

\* the sort moved the later category name in front of the earlier one
C3_Witness ==
    /\ dash.view = "metrics"
    /\ Len(dash.by_cat) = 2
    /\ dash.by_cat[1].amount > dash.by_cat[2].amount
    /\ CatLess(dash.by_cat[2].category, dash.by_cat[1].category)

\* ------------------------------------------------------------------- C8
\* C8: the daily totals hold exactly one entry per calendar date with an
\* expense, each the sum of that date's amounts, in ascending date order.
C8_DailyTotals ==
    dash.view = "metrics" =>
        /\ {dash.daily[i].date : i \in 1..Len(dash.daily)} = DashDates
        /\ \A i \in 1..Len(dash.daily) :
              dash.daily[i].amount = SpentOn(dash.daily[i].date)
        /\ \A i, j \in 1..Len(dash.daily) :
              i < j => DateLess(dash.daily[i].date, dash.daily[j].date)

\* two expenses at different times of one day, a third on another day
C8_Witness ==
    /\ dash.view = "metrics"
    /\ Len(dash.daily) = 2
    /\ \E r1, r2 \in DashRows :
          DateOf(r1.dt) = DateOf(r2.dt) /\ r1.dt # r2.dt
          /\ \E i \in 1..2 : dash.daily[i] =
                 [date |-> DateOf(r1.dt), amount |-> r1.amount + r2.amount]

\* ---------------------------------------------------------- page_budgets
NoUpserts == [k \in BudgetKeys |-> None]

\* page_budgets(user): the chosen month, category and amount; the button
\* saves the budget, and the budgets of the month are read back and shown
PageBudgets(u, m, cat, amt, pressed) ==
    /\ pressed /\ (\A b \in budgets : <<b.user_id, b.month, b.category>> # <<u, m, cat>>)
          => nextBudgetId <= MaxBudgets
    /\ budgets' = IF pressed THEN upsert_budget(budgets, nextBudgetId, u, m, cat, amt)
                  ELSE budgets
    /\ nextBudgetId' = IF Cardinality(budgets') > Cardinality(budgets)
                       THEN nextBudgetId + 1 ELSE nextBudgetId
    /\ lastUpsert' = IF pressed THEN [lastUpsert EXCEPT ![<<u, m, cat>>] = Some(amt)]
                     ELSE lastUpsert
    /\ budgetView' = [user |-> u, month |-> m, rows |-> BudgetQuery(budgets', u, m)]
    /\ UNCHANGED <<storeVars, cache, dash, sessionVars>>

InitEmpty ==
    /\ expenses = {}
    /\ nextId = 1
    /\ budgets = {}
    /\ nextBudgetId = 1
    /\ lastUpsert = NoUpserts
    /\ cache = EmptyCache
    /\ dash = NoDash
    /\ budgetView = NoView
    /\ IdleSessions

InitBudget == InitEmpty /\ user = [s \in Sessions |-> 1]

NextBudget ==
    \E u \in Users, m \in Months, cat \in Categories, amt \in BudgetAmounts,
       pressed \in BOOLEAN : PageBudgets(u, m, cat, amt, pressed)

SpecBudget == InitBudget /\ [][NextBudget]_vars

\* ------------------------------------------------------------------- C4
BudgetKeyOf(b) == <<b.user_id, b.month, b.category>>

BudgetsConsistent ==
    /\ \A b1, b2 \in budgets : BudgetKeyOf(b1) = BudgetKeyOf(b2) => b1 = b2
    /\ \A k \in BudgetKeys :
          LET B == {b \in budgets : BudgetKeyOf(b) = k}
          IN IF lastUpsert[k] = None THEN B = {}
             ELSE \E b \in B : b.amount = lastUpsert[k][1]
    /\ budgetView.user # 0 =>
          /\ Range(budgetView.rows) =
                {[category |-> b.category, amount |-> b.amount] :
                    b \in {x \in budgets : x.user_id = budgetView.user
                                            /\ x.month = budgetView.month}}
          /\ Len(budgetView.rows) =
                Cardinality({x \in budgets : x.user_id = budgetView.user
                                             /\ x.month = budgetView.month})

\* a step changes the records of at most one key
OneKeyChanges ==
    \E k \in BudgetKeys :
        \A b \in budgets \cup budgets' :
            BudgetKeyOf(b) # k => (b \in budgets /\ b \in budgets')

\* C4: the budget table holds at most one record per (owner, month,
\* category), its amount that of the latest upsert_budget of the key; an
\* upsert leaves the records of every other key as they were; get_budgets
\* returns exactly the records of the owner and month.
C4_Upsert == []BudgetsConsistent /\ [][OneKeyChanges]_vars

\* a key upserted a second time with another amount beside a record of
\* another key, the page showing the new amount
C4_Witness ==
    /\ Cardinality(budgets) = 2
    /\ nextBudgetId = 3
    /\ \E b \in budgets : b.id = 1 /\ b.amount = 2
                            /\ budgetView.user = b.user_id
                            /\ budgetView.month = b.month
                            /\ Len(budgetView.rows) = 1
    /\ \E b \in budgets : b.id = 2 /\ b.amount = 0

\* --------------------------------------------- writes to the expenses table
MaxId(table) ==
    IF table = {} THEN 0
    ELSE LET r == CHOOSE x \in table : \A y \in table : y.id <= x.id IN r.id

\* a plain INTEGER PRIMARY KEY: one more than the largest rowid in the table
NewIdRowid(table, seq) == MaxId(table) + 1

\* id INTEGER PRIMARY KEY AUTOINCREMENT: the id of the next inserted row comes
\* from the table's sequence and is never one used before
NewId(table, seq) == seq

\* INSERT INTO expenses(user_id, dt, category, description, amount, payment)
InsertRow(table, seq, u, dt, cat, amt) ==
    table \cup {ExpenseRow(NewId(table, seq), u, dt, cat, amt)}

\* DELETE FROM expenses WHERE id=?
DeleteRow(table, id) == {r \in table : r.id # id}

RECURSIVE ImportRows(_, _, _, _)
\* the for loop of import_csv inside "with get_conn()": float(r["amount"])
\* raises on a cell that is no number, and get_conn's finally commits the
\* rows inserted before it
ImportRows(table, seq, u, rows) ==
    IF rows = <<>> THEN [table |-> table, seq |-> seq, failed |-> FALSE]
    ELSE IF Head(rows).amount = None
         THEN [table |-> table, seq |-> seq, failed |-> TRUE]
         ELSE ImportRows(InsertRow(table, seq, u, Head(rows).dt, Head(rows).category,
                                   Head(rows).amount[1]),
                         NewId(table, seq) + 1, u, Tail(rows))

\* ------------------------------------------------- the steps of a session
Idle(s) == pc[s] = "idle"

\* add_expense up to the commit that leaving "with get_conn()" makes
AddCommit(s, dt, cat, amt) ==
    /\ Idle(s)
    /\ nextId <= MaxExpenses
    /\ expenses' = InsertRow(expenses, nextId, user[s], dt, cat, amt)
    /\ nextId' = NewId(expenses, nextId) + 1
    /\ pc' = [pc EXCEPT ![s] = "add_clear"]
    /\ report' = [report EXCEPT ![s] = ""]
    /\ rowcount' = [rowcount EXCEPT ![s] = 0]
    /\ UNCHANGED <<budgetVars, cache, dash, user, args, df, hit>>

\* import_csv up to the commit; a file without the needed columns is
\* refused, an exception in the loop leaves import_csv before its
\* st.cache_data.clear()
ImportCommit(s, file) ==
    /\ Idle(s)
    /\ IF ~file.columns_ok
       THEN /\ report' = [report EXCEPT ![s] = "CSV must have columns"]
            /\ UNCHANGED <<storeVars, pc>>
       ELSE LET res == ImportRows(expenses, nextId, user[s], file.rows)
            IN /\ res.seq <= MaxExpenses + 1
               /\ expenses' = res.table
               /\ nextId' = res.seq
               /\ pc' = [pc EXCEPT ![s] = IF res.failed THEN "idle" ELSE "imp_clear"]
               /\ report' = [report EXCEPT ![s] = IF res.failed THEN "exception" ELSE ""]
    /\ rowcount' = [rowcount EXCEPT ![s] = 0]
    /\ UNCHANGED <<budgetVars, cache, dash, user, args, df, hit>>

\* st.cache_data.clear() and the st.success that ends the handler
CacheClear(s) ==
    /\ pc[s] \in {"add_clear", "imp_clear", "del_clear"}
    /\ cache' = EmptyCache
    /\ report' = [report EXCEPT ![s] =
                     CASE pc[s] = "add_clear" -> "Added!"
                       [] pc[s] = "imp_clear" -> "Imported!"
                       [] OTHER -> "Deleted."]
    /\ pc' = [pc EXCEPT ![s] = "idle"]
    /\ args' = [args EXCEPT ![s] = NoArgs]
    /\ df' = [df EXCEPT ![s] = <<>>]
    /\ hit' = [hit EXCEPT ![s] = FALSE]
    /\ UNCHANGED <<storeVars, budgetVars, dash, user, rowcount>>

\* a call load_expenses(user["id"], month=m, category=c): the cache lookup
LoadCall(s, m, c) ==
    /\ Idle(s)
    /\ args' = [args EXCEPT ![s] = <<m, c>>]
    /\ report' = [report EXCEPT ![s] = ""]
    /\ IF CacheKey(user[s], m, c) \in DOMAIN cache
       THEN /\ df' = [df EXCEPT ![s] = cache[CacheKey(user[s], m, c)]]
            /\ hit' = [hit EXCEPT ![s] = TRUE]
            /\ pc' = [pc EXCEPT ![s] = "returned"]
       ELSE /\ df' = [df EXCEPT ![s] = <<>>]
            /\ hit' = [hit EXCEPT ![s] = FALSE]
            /\ pc' = [pc EXCEPT ![s] = "query"]
    /\ rowcount' = [rowcount EXCEPT ![s] = 0]
    /\ UNCHANGED <<storeVars, budgetVars, cache, dash, user>>

\* the body of load_expenses: pd.read_sql_query on its own connection
LoadQuery(s) ==
    /\ pc[s] = "query"
    /\ df' = [df EXCEPT ![s] = Query(expenses, user[s], args[s][1], args[s][2])]
    /\ pc' = [pc EXCEPT ![s] = "store"]
    /\ UNCHANGED <<storeVars, budgetVars, cache, dash, user, args, hit, rowcount, report>>

\* the cache keeps the value the body returned
LoadStore(s) ==
    /\ pc[s] = "store"
    /\ cache' = [k \in DOMAIN cache \cup {CacheKey(user[s], args[s][1], args[s][2])} |->
                    IF k = CacheKey(user[s], args[s][1], args[s][2])
                    THEN df[s] ELSE cache[k]]
    /\ pc' = [pc EXCEPT ![s] = "returned"]
    /\ UNCHANGED <<storeVars, budgetVars, dash, user, args, df, hit, rowcount, report>>

\* the caller ends without a write: export_csv, or page_list with no
\* transactions or with the Delete button not pressed
Return(s) ==
    /\ pc[s] = "returned"
    /\ pc' = [pc EXCEPT ![s] = "idle"]
    /\ args' = [args EXCEPT ![s] = NoArgs]
    /\ df' = [df EXCEPT ![s] = <<>>]
    /\ hit' = [hit EXCEPT ![s] = FALSE]
    /\ UNCHANGED <<storeVars, budgetVars, cache, dash, user, rowcount, report>>

\* page_list: df is load_expenses(user["id"], month=month); the Delete
\* button calls delete_expense with an id of df["id"].tolist()
DeleteCommit(s, id) ==
    /\ pc[s] = "returned"
    /\ args[s][1] # NoMonth /\ args[s][2] = NoCategory
    /\ \E i \in 1..Len(df[s]) : df[s][i].id = id
    /\ expenses' = DeleteRow(expenses, id)
    /\ rowcount' = [rowcount EXCEPT ![s] = Cardinality(expenses) - Cardinality(expenses')]
    /\ pc' = [pc EXCEPT ![s] = "del_clear"]
    /\ UNCHANGED <<nextId, budgetVars, cache, dash, user, args, df, hit, report>>

\* ttl=60: an entry older than a minute is dropped
CacheExpire(k) ==
    /\ k \in DOMAIN cache
    /\ cache' = [j \in DOMAIN cache \ {k} |-> cache[j]]
    /\ UNCHANGED <<storeVars, budgetVars, dash, sessionVars>>

\* ------------------------------------- sessions of users, side by side
\* what the sessions submit: one date and category, a CSV cell that is a
\* number or not
CsvFiles(oks, dts, cats, cells) ==
    {[columns_ok |-> ok, rows |-> rows] :
        ok \in oks,
        rows \in UNION {[1..k -> [dt : dts, category : cats, amount : cells]] :
                          k \in 1..MaxCsvRows}}

Init == InitEmpty /\ user \in [Sessions -> Users]

Next ==
    \/ \E s \in Sessions : AddCommit(s, <<1, 1, 0>>, "Food", 1)
    \/ \E s \in Sessions, file \in CsvFiles({TRUE}, {<<1, 1, 0>>}, {"Food"}, {Some(1), None}) :
          ImportCommit(s, file)
    \/ \E s \in Sessions : CacheClear(s)
    \/ \E s \in Sessions : LoadCall(s, 1, NoCategory)
    \/ \E s \in Sessions : LoadQuery(s)
    \/ \E s \in Sessions : LoadStore(s)
    \/ \E s \in Sessions : Return(s)
    \/ \E s \in Sessions, id \in 1..MaxExpenses : DeleteCommit(s, id)
    \/ \E k \in DOMAIN cache : CacheExpire(k)

Spec == Init /\ [][Next]_vars

\* ------------------------------------------------------------------- C7
\* C7 as stated: a delete by an id that is not in the table is reported as
\* NotFound, not as a successful delete.  (delete_expense knows no such
\* error; the only reports are those of CacheClear.)
C7_AsStated ==
    \A s \in Sessions : report[s] = "Deleted." => rowcount[s] = 1

\* ------------------------------------------------------------------- C9
CacheFresh ==
    \A k \in DOMAIN cache : cache[k] = Query(expenses, k[1], k[2], k[3])

Clearing == {s \in Sessions : pc[s] \in {"add_clear", "imp_clear", "del_clear"}}

\* C9 as stated: once a write to the expenses table is committed, a
\* load_expenses call that starts afterwards never gets a cached result that
\* predates it; so, no writer standing between its commit and its clear, no
\* cache entry differs from what its query returns now.
C9_AsStated == Clearing = {} => CacheFresh

\* ------------------------------------------------------------------ C10
\* the step in which session s commits the DELETE of delete_expense
Deletes(s) == pc[s] = "returned" /\ pc'[s] = "del_clear"

DeleteIsOwn ==
    \A s \in Sessions :
        Deletes(s) =>
            /\ expenses' \subseteq expenses
            /\ Cardinality(expenses \ expenses') <= 1
            /\ \A r \in expenses \ expenses' :
                  /\ r.user_id = user[s]
                  /\ \E i \in 1..Len(df[s]) : df[s][i] = Project(r)

IdsNotReused ==
    /\ \A r \in expenses, q \in expenses' : r.id = q.id => r = q
    /\ \A q \in expenses' \ expenses : q.id >= nextId /\ q.id < nextId'
    /\ nextId' >= nextId

\* C10: whatever the sessions of the users do side by side, a delete from a
\* user's Transactions page removes at most one record, one of that user
\* that the page listed, and leaves every other record as it was, also when
\* the listed ids are stale: ids are not used twice and no record is
\* changed in place.
C10_DeleteOwn == [][DeleteIsOwn /\ IdsNotReused]_vars

\* a delete has removed a record while a record of another user is stored
C10_Witness ==
    \E s \in Sessions :
        /\ pc[s] = "del_clear"
        /\ rowcount[s] = 1
        /\ \E r \in expenses : r.user_id # user[s]

\* ------------------------------------- one session over a varied table
StoreDts == {<<1, 2, 0>>, <<2, 1, 0>>}

\* rows another user has stored before
OtherRows == {[dt |-> <<1, 1, 0>>, category |-> "Food", amount |-> 1]}

InitStore ==
    /\ \E rows \in SeqsUpTo(OtherRows, 1) :
          /\ expenses = TableOf(rows, 2)
          /\ nextId = Len(rows) + 1
    /\ budgets = {}
    /\ nextBudgetId = 1
    /\ lastUpsert = NoUpserts
    /\ cache = EmptyCache
    /\ dash = NoDash
    /\ budgetView = NoView
    /\ user = [s \in Sessions |-> 1]
    /\ IdleSessions

NextStore ==
    \/ \E dt \in StoreDts, cat \in Categories : AddCommit("s1", dt, cat, 1)
    \/ \E file \in CsvFiles(BOOLEAN, {<<1, 1, 0>>}, {"Food"}, {Some(-1), None}) :
          ImportCommit("s1", file)
    \/ CacheClear("s1")
    \/ \E m \in {NoMonth, 1}, c \in {NoCategory, "Food"} : LoadCall("s1", m, c)
    \/ LoadQuery("s1")
    \/ LoadStore("s1")
    \/ Return("s1")
    \/ \E id \in 1..MaxExpenses : DeleteCommit("s1", id)
    \/ \E k \in DOMAIN cache : CacheExpire(k)

SpecStore == InitStore /\ [][NextStore]_vars

\* ------------------------------------------------------------------- C5
\* the stored records load_expenses was asked for by session s
Wanted(s) ==
    {Project(r) : r \in {x \in expenses :
        /\ x.user_id = user[s]
        /\ (args[s][1] # NoMonth => x.dt[1] = args[s][1])
        /\ (args[s][2] # NoCategory => x.category = args[s][2])}}

AllAndOnly(s) == Range(df[s]) = Wanted(s) /\ Len(df[s]) = Cardinality(Wanted(s))

\* C5 as stated: load_expenses returns all and only the stored records of
\* the owner, of the month if one is given and of the category if one is
\* given, sorted by date ascending.
C5_AsStated ==
    \A s \in Sessions :
        pc[s] = "returned" =>
            /\ AllAndOnly(s)
            /\ \A i, j \in 1..Len(df[s]) : i < j => ~DtLess(df[s][j].dt, df[s][i].dt)

\* C5 amended: a load_expenses call the cache does not answer returns all
\* and only those records, as stored when its query runs, each once, in
\* ascending order of id (the order of insertion, not of date); a call the
\* cache answers returns what an earlier call stored: records that match the
\* arguments, in ascending order of id, not always all that are stored now.
C5_Load ==
    \A s \in Sessions :
        pc[s] = "returned" =>
            /\ \A i, j \in 1..Len(df[s]) : i < j => df[s][i].id < df[s][j].id
            /\ IF hit[s]
               THEN \A i \in 1..Len(df[s]) :
                       /\ args[s][1] # NoMonth => df[s][i].dt[1] = args[s][1]
                       /\ args[s][2] # NoCategory => df[s][i].category = args[s][2]
                       /\ \A r \in expenses :
                             r.id = df[s][i].id =>
                                 r.user_id = user[s] /\ Project(r) = df[s][i]
               ELSE AllAndOnly(s)

\* a month and category were given; a record of another user and one of
\* another month stay out of the result
C5_Witness ==
    /\ pc["s1"] = "returned" /\ ~hit["s1"]
    /\ args["s1"] = <<1, "Food">>
    /\ Len(df["s1"]) = 1
    /\ \E r \in expenses : r.user_id # 1
    /\ \E r \in expenses : r.user_id = 1 /\ r.dt[1] # 1

\* ------------------------------------------------------------------- C6
\* C6 as stated: whatever add_expense, import_csv and delete_expense did,
\* every stored expense has a non-negative amount.
C6_AsStated == \A r \in expenses : r.amount >= 0

====
